---- MODULE Spec2Model ----
(***************************************************************************)
(* A model of the vulneromics data layer: the schema resolver, the         *)
(* expression loader (long and wide layouts), the load/merge pipeline of   *)
(* app.py and the cell filter.                                             *)
(*                                                                         *)
(* Tables.  A pandas DataFrame is a record                                 *)
(*     [columns : Seq(STRING), rows : Seq([column name -> value])].        *)
(* Floats are exact extended rationals <<num, den>> with den >= 0 in       *)
(* lowest terms: <<n, 1>> is the number n, <<0, 0>> is NaN / pd.NA and     *)
(* <<-1, 0>> is float("-inf").  A null in a string column is NullStr.      *)
(* Exceptions.  A call returns [exc, value, msg]; exc = "" means the call  *)
(* returned value, any other exc is the class of the exception raised.     *)
(***************************************************************************)
EXTENDS Integers, Sequences, FiniteSets, TLC

VARIABLES
    pc,               \* position of the running scenario
    columns,          \* resolver: the list of available column names
    call,             \* resolver: the call made (function, candidates, label)
    picked,           \* resolver: what the call returned or raised
    path,             \* loader: the expression file behind the path argument
    genes,            \* loader: the genes argument, as passed
    loaded,           \* loader: what load_expression_subset returned or raised
    layout,           \* loader: the branch it took: "long", "wide" or ""
    fs,               \* app: the files behind metadata_rel and expression_rel
    selected_genes,   \* app: the gene panel of the sidebar
    expression_path,  \* app: "" or the resolved expression path
    metadata,         \* app: the table load_metadata returned
    expression,       \* app: None or the table the expression loader returned
    merged,           \* app: the merged table
    notices,          \* app: st.error / st.warning calls, in order
    df,               \* filter: the table passed to filter_cells
    regions,          \* filter: region allow-list
    classes,          \* filter: class allow-list
    gene_thresholds,  \* filter: gene -> threshold, in insertion order
    filtered          \* filter: the table filter_cells returned

resolverVars == <<columns, call, picked>>
loaderVars == <<path, genes, loaded, layout>>
appVars == <<fs, selected_genes, expression_path, metadata, expression, merged, notices>>
filterVars == <<df, regions, classes, gene_thresholds, filtered>>
vars == <<pc, resolverVars, loaderVars, appVars, filterVars>>

----------------------------------------------------------------------------
(* Bounds of the model. *)

MaxCols == 3          \* longest list of available columns given to the resolver
MaxRows == 2          \* most rows of an expression source
MaxMetaRows == 2      \* most rows of a metadata source
MaxFilterRows == 2    \* most rows of a table given to filter_cells

----------------------------------------------------------------------------
(* Values. *)

Range(s) == {s[i] : i \in 1..Len(s)}

NullStr == "<NA>"
NaN == <<0, 0>>
NegInf == <<-1, 0>>
Num(n) == <<n, 1>>
IsNull(v) == v = NaN

None == [exc |-> "None", value |-> <<>>, msg |-> <<>>]
Return(v) == [exc |-> "", value |-> v, msg |-> <<>>]
Raise(e, m) == [exc |-> e, value |-> <<>>, msg |-> m]

\* Sequences without repetition over S, of length at most n.
RECURSIVE ListsOver(_, _)
ListsOver(S, n) ==
    IF n = 0 THEN {<<>>}
    ELSE LET shorter == ListsOver(S, n - 1)
         IN  shorter \cup {Append(s, x) : s \in shorter, x \in S}

DistinctLists(S, n) ==
    {s \in ListsOver(S, n) : \A i, j \in 1..Len(s) : i # j => s[i] # s[j]}

----------------------------------------------------------------------------
(* config.py *)

DEFAULT_REGION_COLUMN_CANDIDATES ==
    <<"parcellation_substructure", "parcellation_structure", "structure_acronym", "brain_region">>

DEFAULT_CLASS_COLUMN_CANDIDATES == <<"class", "cell_class", "supertype">>

DEFAULT_COORD_COLUMN_CANDIDATES ==
    << <<"x", "y", "z">>, <<"x_ccf", "y_ccf", "z_ccf">>, <<"ccf_x", "ccf_y", "ccf_z">> >>

DEFAULT_CELL_ID_CANDIDATES == <<"cell_label", "cell_id", "cell">>

----------------------------------------------------------------------------
(* Schema resolver (data_loader.py). *)

\* A bug the resolver could have: scan the available columns, not the candidates.
RECURSIVE pick_first_column(_, _, _)
pick_first_column(cols, candidates, label) ==
    IF cols = <<>>
    THEN Raise("DataSchemaError", [label |-> label, tried |-> candidates])
    ELSE IF Head(cols) \in Range(candidates)
         THEN Return(Head(cols))
         ELSE pick_first_column(Tail(cols), candidates, label)

\* for name in candidates: if name in columns: return name; raise DataSchemaError
RECURSIVE pick_from(_, _, _, _)
pick_from(cols, rest, candidates, label) ==
    IF rest = <<>>
    THEN Raise("DataSchemaError", [label |-> label, tried |-> candidates])
    ELSE IF Head(rest) \in Range(cols)
         THEN Return(Head(rest))
         ELSE pick_from(cols, Tail(rest), candidates, label)

pick_first_available(cols, candidates, label) ==
    pick_from(cols, candidates, candidates, label)

\* A bug the resolver could have: resolve each axis on its own.
pick_coord_columns_per_axis(cols) ==
    LET axis(k) == [i \in 1..Len(DEFAULT_COORD_COLUMN_CANDIDATES) |->
                        DEFAULT_COORD_COLUMN_CANDIDATES[i][k]]
        px == pick_first_available(cols, axis(1), "x")
        py == pick_first_available(cols, axis(2), "y")
        pz == pick_first_available(cols, axis(3), "z")
    IN  IF px.exc = "" /\ py.exc = "" /\ pz.exc = ""
        THEN Return(<<px.value, py.value, pz.value>>)
        ELSE Raise("DataSchemaError", [label |-> "xyz coordinate",
                                       tried |-> DEFAULT_COORD_COLUMN_CANDIDATES])

\* for triplet in DEFAULT_COORD_COLUMN_CANDIDATES:
\*     if all(col in columns for col in triplet): return triplet
RECURSIVE pick_triplet_from(_, _)
pick_triplet_from(cols, rest) ==
    IF rest = <<>>
    THEN Raise("DataSchemaError", [label |-> "xyz coordinate",
                                   tried |-> DEFAULT_COORD_COLUMN_CANDIDATES])
    ELSE IF \A k \in 1..Len(Head(rest)) : Head(rest)[k] \in Range(cols)
         THEN Return(Head(rest))
         ELSE pick_triplet_from(cols, Tail(rest))

pick_coord_columns(cols) ==
    pick_triplet_from(cols, DEFAULT_COORD_COLUMN_CANDIDATES)

----------------------------------------------------------------------------
(* Tables and files. *)

\* sorted() on the names the model uses: the position in these lists.
GeneOrder == <<"GeneA", "GeneB">>
CellOrder == <<"c1", "c2">>

DataFrame(cols, rows) == [columns |-> cols, rows |-> rows]

\* pd.DataFrame(columns=[...]): the columns and no row.
EmptyFrame(cols) == DataFrame(cols, <<>>)

\* A file is [exists, suffix, table]; _read_table and peek_columns look at the
\* suffix before they open the file.
Supported(suffix) == suffix \in {".csv", ".parquet", ".pq"}

peek_columns(p) ==
    IF ~Supported(p.suffix)
    THEN Raise("ValueError", [label |-> "extension", tried |-> <<p.suffix>>])
    ELSE IF ~p.exists
         THEN Raise("FileNotFoundError", [label |-> "path", tried |-> <<>>])
         ELSE Return(p.table.columns)

Project(row, cols) == [c \in Range(cols) |-> row[c]]

\* _read_table(path, columns): the projection of the file's table; read_csv
\* keeps the file's column order, the parquet reader the requested order.
read_table(p, cols) ==
    IF ~Supported(p.suffix)
    THEN Raise("ValueError", [label |-> "extension", tried |-> <<p.suffix>>])
    ELSE IF ~p.exists
         THEN Raise("FileNotFoundError", [label |-> "path", tried |-> <<>>])
         ELSE Return(DataFrame(IF p.suffix = ".csv"
                               THEN SelectSeq(p.table.columns, LAMBDA c : c \in Range(cols))
                               ELSE cols,
                               [i \in 1..Len(p.table.rows) |-> Project(p.table.rows[i], cols)]))

RECURSIVE Gcd(_, _)
Gcd(a, b) == IF b = 0 THEN a ELSE Gcd(b, a % b)

Abs(n) == IF n < 0 THEN -n ELSE n

\* num / den in lowest terms, den > 0.
Ratio(num, den) ==
    LET d == Gcd(Abs(num), den) IN <<num \div d, den \div d>>

RECURSIVE SumNum(_)
SumNum(vals) == IF vals = <<>> THEN 0 ELSE Head(vals)[1] + SumNum(Tail(vals))

\* A bug the pivot could have: aggfunc="sum".
sum_skipna(vals) ==
    LET seen == SelectSeq(vals, LAMBDA v : ~IsNull(v))
    IN  IF seen = <<>> THEN NaN ELSE Ratio(SumNum(seen), 1)

\* aggfunc="mean": the mean of the values that are not null, NaN if there are none.
\* The values averaged are numbers <<n, 1>>.
mean(vals) ==
    LET seen == SelectSeq(vals, LAMBDA v : ~IsNull(v))
    IN  IF seen = <<>> THEN NaN ELSE Ratio(SumNum(seen), Len(seen))

\* expr.pivot_table(index="cell_id", columns="gene", values="expression",
\*                  aggfunc="mean").reset_index().rename_axis(None, axis=1)
\* Groups with a null key are dropped (groupby dropna), groups whose mean is NaN
\* are dropped, the cells and the genes left are sorted, and a cell without a
\* group for a gene gets NaN.
pivot_table(expr) ==
    LET vals(c, g) ==
            LET hit == SelectSeq(expr.rows, LAMBDA r : r["cell_id"] = c /\ r["gene"] = g)
            IN  [i \in 1..Len(hit) |-> hit[i]["expression"]]
        agg(c, g) == mean(vals(c, g))
        kept(c, g) == vals(c, g) # <<>> /\ ~IsNull(agg(c, g))
        index == SelectSeq(CellOrder, LAMBDA c : \E g \in Range(GeneOrder) : kept(c, g))
        cols == SelectSeq(GeneOrder, LAMBDA g : \E c \in Range(CellOrder) : kept(c, g))
    IN  DataFrame(<<"cell_id">> \o cols,
                  [i \in 1..Len(index) |->
                      [col \in {"cell_id"} \cup Range(cols) |->
                          IF col = "cell_id" THEN index[i]
                          ELSE IF kept(index[i], col) THEN agg(index[i], col) ELSE NaN]])

----------------------------------------------------------------------------
(* Expression loader (data_loader.py). *)

\* genes = tuple(sorted(set(g for g in genes if g)))
normalize_genes(gs) == SelectSeq(GeneOrder, LAMBDA g : g \in Range(gs) /\ g # "")

\* {"cell_id", "gene", "expression"}.issubset(columns)
is_long_format(cols) == {"cell_id", "gene", "expression"} \subseteq Range(cols)

\* The long-format branch, lines 138-152.
load_long(p, gs) ==
    LET read == read_table(p, <<"cell_id", "gene", "expression">>).value
        expr == DataFrame(read.columns,
                          SelectSeq(read.rows, LAMBDA r : r["gene"] \in Range(gs)))
    IN  IF expr.rows = <<>>
        THEN Return(EmptyFrame(<<"cell_id">> \o gs))
        ELSE Return(pivot_table(expr))

\* The wide-format branch, lines 155-167.
load_wide(p, cols, gs) ==
    LET cell_id_col == pick_first_available(cols, DEFAULT_CELL_ID_CANDIDATES, "cell id")
        available == SelectSeq(gs, LAMBDA g : g \in Range(cols))
        read == read_table(p, <<cell_id_col.value>> \o available)
        wide == read.value
    IN  IF cell_id_col.exc # "" THEN cell_id_col
        ELSE IF available = <<>> THEN Return(EmptyFrame(<<"cell_id">> \o gs))
        ELSE IF read.exc # "" THEN read
        ELSE Return(DataFrame(<<"cell_id">> \o gs,
                 [i \in 1..Len(wide.rows) |->
                     [col \in {"cell_id"} \cup Range(gs) |->
                         IF col = "cell_id" THEN wide.rows[i][cell_id_col.value]
                         ELSE IF col \in Range(available) THEN wide.rows[i][col]
                         ELSE NaN]]))

\* Which branch load_expression_subset takes: "" when it returns or raises
\* before the layout test of line 137.
expression_layout(p, gs) ==
    IF normalize_genes(gs) = <<>> \/ peek_columns(p).exc # "" THEN ""
    ELSE IF is_long_format(peek_columns(p).value) THEN "long" ELSE "wide"

load_expression_subset(p, gs) ==
    LET sorted == normalize_genes(gs)
        cols == peek_columns(p)
    IN  IF sorted = <<>> THEN Return(EmptyFrame(<<"cell_id">>))
        ELSE IF cols.exc # "" THEN cols
        ELSE IF expression_layout(p, gs) = "long" THEN load_long(p, sorted)
        ELSE load_wide(p, cols.value, sorted)

----------------------------------------------------------------------------
(* Metadata loader (data_loader.py), path resolution, merge and filter. *)

\* resolve_abc_file_path: the path when the file exists; the function is cached
\* by st.cache_data, so a resolution made while the file existed is returned
\* again without a look at the disk.
resolve_abc_file_path(p, cached) ==
    IF cached \/ p.exists THEN Return("resolved")
    ELSE Raise("FileNotFoundError", [label |-> "path", tried |-> <<>>])

load_metadata(p) ==
    LET cols == peek_columns(p)
        cell_id == pick_first_available(cols.value, DEFAULT_CELL_ID_CANDIDATES, "cell id")
        region == pick_first_available(cols.value, DEFAULT_REGION_COLUMN_CANDIDATES, "region")
        cell_class == pick_first_available(cols.value, DEFAULT_CLASS_COLUMN_CANDIDATES, "cell class")
        xyz == pick_coord_columns(cols.value)
        selected == <<cell_id.value, region.value, cell_class.value>> \o xyz.value
        canonical == <<"cell_id", "region", "cell_class", "x", "y", "z">>
        read == read_table(p, selected)
        renamed(row) == [c \in Range(canonical) |->
                            row[selected[CHOOSE k \in 1..Len(canonical) : canonical[k] = c]]]
        named == [i \in 1..Len(read.value.rows) |-> renamed(read.value.rows[i])]
        \* df.dropna(subset=["cell_id", "x", "y", "z"])
        whole == SelectSeq(named, LAMBDA r : /\ r["cell_id"] # NullStr
                                            /\ ~IsNull(r["x"]) /\ ~IsNull(r["y"]) /\ ~IsNull(r["z"]))
        order == [k \in 1..Len(read.value.columns) |->
                     canonical[CHOOSE j \in 1..Len(selected) : selected[j] = read.value.columns[k]]]
    IN  IF cols.exc # "" THEN cols
        ELSE IF cell_id.exc # "" THEN cell_id
        ELSE IF region.exc # "" THEN region
        ELSE IF cell_class.exc # "" THEN cell_class
        ELSE IF xyz.exc # "" THEN xyz
        ELSE IF read.exc # "" THEN read
        ELSE Return(DataFrame(order, whole))

\* The rows of left.merge(right, on="cell_id", how="left") for one left row:
\* one per matching right row, or one with null gene values when none matches.
RECURSIVE merge_rows(_, _, _)
merge_rows(lrows, right, extra) ==
    IF lrows = <<>> THEN <<>>
    ELSE LET l == Head(lrows)
             hits == SelectSeq(right.rows, LAMBDA r : r["cell_id"] = l["cell_id"])
             joined == IF hits = <<>>
                       THEN <<l @@ [g \in Range(extra) |-> NaN]>>
                       ELSE [k \in 1..Len(hits) |-> l @@ [g \in Range(extra) |-> hits[k][g]]]
         IN  joined \o merge_rows(Tail(lrows), right, extra)

merge_left(left, right) ==
    LET extra == SelectSeq(right.columns, LAMBDA c : c # "cell_id")
    IN  DataFrame(left.columns \o extra, merge_rows(left.rows, right, extra))

\* a >= b on floats: false when either side is NaN.
Geq(a, b) ==
    IF a = NaN \/ b = NaN THEN FALSE
    ELSE IF b = NegInf THEN TRUE
    ELSE IF a = NegInf THEN FALSE
    ELSE a[1] * b[2] >= b[1] * a[2]

\* series.fillna(float("-inf"))
fillna_neginf(v) == IF IsNull(v) THEN NegInf ELSE v

\* A bug the filter could have: the comparison made on the raw column and its
\* null rows kept (fillna(float("inf"))).
threshold_mask_keep_null(v, threshold) == IsNull(v) \/ Geq(v, threshold)

\* out[gene].fillna(float("-inf")) >= threshold, for one row.
threshold_mask(v, threshold) == Geq(fillna_neginf(v), threshold)

\* A bug the filter could have: an empty allow-list matches nothing.
allow_mask_strict(allow, v) == v \in Range(allow)

\* if allow: out = out[out[col].isin(allow)], for one row.
allow_mask(allow, v) == allow = <<>> \/ v \in Range(allow)

\* for gene, threshold in gene_thresholds.items():
\*     if gene in out.columns: out = out[out[gene].fillna(-inf) >= threshold]
RECURSIVE apply_thresholds(_, _)
apply_thresholds(out, thresholds) ==
    IF thresholds = <<>> THEN out
    ELSE LET gene == Head(thresholds)[1]
             threshold == Head(thresholds)[2]
             next == IF gene \in Range(out.columns)
                     THEN DataFrame(out.columns,
                              SelectSeq(out.rows, LAMBDA r : threshold_mask(r[gene], threshold)))
                     ELSE out
         IN  apply_thresholds(next, Tail(thresholds))

filter_cells(table, rs, cs, thresholds) ==
    LET by_region == DataFrame(table.columns,
                         SelectSeq(table.rows, LAMBDA r : allow_mask(rs, r["region"])))
        by_class == DataFrame(table.columns,
                         SelectSeq(by_region.rows, LAMBDA r : allow_mask(cs, r["cell_class"])))
    IN  apply_thresholds(by_class, thresholds)

----------------------------------------------------------------------------
(* Scenario 1: the resolver is called on a list of available columns. *)

\* Column names a source may carry: aliases of every concept, of all three
\* coordinate conventions, and names the resolver does not know.
ColumnUniverse ==
    {"cell_label", "cell_id", "cell", "structure_acronym", "brain_region",
     "class", "supertype", "x", "y", "z", "x_ccf", "ccf_x", "ccf_z"}

\* The (candidates, label) pairs load_metadata and the wide path pass.
ConceptCandidates ==
    { [candidates |-> DEFAULT_CELL_ID_CANDIDATES, label |-> "cell id"],
      [candidates |-> DEFAULT_REGION_COLUMN_CANDIDATES, label |-> "region"],
      [candidates |-> DEFAULT_CLASS_COLUMN_CANDIDATES, label |-> "cell class"] }

NoCall == [fn |-> "", candidates |-> <<>>, label |-> ""]

ResolverIdle == columns = <<>> /\ call = NoCall /\ picked = None
LoaderIdle == path = <<>> /\ genes = <<>> /\ loaded = None /\ layout = ""
AppIdle ==
    /\ fs = <<>> /\ selected_genes = <<>> /\ expression_path = ""
    /\ metadata = None /\ expression = None /\ merged = None /\ notices = <<>>
FilterIdle ==
    /\ df = <<>> /\ regions = <<>> /\ classes = <<>>
    /\ gene_thresholds = <<>> /\ filtered = <<>>

ResolverInit ==
    /\ pc = "resolve"
    /\ columns \in DistinctLists(ColumnUniverse, MaxCols)
    /\ call = NoCall /\ picked = None
    /\ LoaderIdle /\ AppIdle /\ FilterIdle

PickFirstAvailable ==
    /\ pc = "resolve"
    /\ \E c \in ConceptCandidates :
          /\ call' = [fn |-> "_pick_first_available",
                      candidates |-> c.candidates, label |-> c.label]
          /\ picked' = pick_first_available(columns, c.candidates, c.label)
    /\ pc' = "resolved"
    /\ UNCHANGED <<columns, loaderVars, appVars, filterVars>>

PickCoordColumns ==
    /\ pc = "resolve"
    /\ call' = [fn |-> "_pick_coord_columns", candidates |-> <<>>, label |-> ""]
    /\ picked' = pick_coord_columns(columns)
    /\ pc' = "resolved"
    /\ UNCHANGED <<columns, loaderVars, appVars, filterVars>>

ResolverNext == PickFirstAvailable \/ PickCoordColumns

SpecResolver == ResolverInit /\ [][ResolverNext]_vars

----------------------------------------------------------------------------
(* Claims about the resolver. *)

CompleteTriplets(cols) ==
    {t \in Range(DEFAULT_COORD_COLUMN_CANDIDATES) : \A k \in 1..Len(t) : t[k] \in Range(cols)}

\* C3: _pick_coord_columns returns a triplet only if it is a declared triplet
\* whose three names are all available, raises DataSchemaError exactly when no
\* declared triplet is complete, and so never composes a triplet out of names
\* of different declared triplets: the columns {x, y, ccf_z} do not resolve.
C3_CoordTripletAtomic ==
    (pc = "resolved" /\ call.fn = "_pick_coord_columns") =>
        /\ picked.exc \in {"", "DataSchemaError"}
        /\ picked.exc = "" => picked.value \in CompleteTriplets(columns)
        /\ picked.exc = "DataSchemaError" <=> CompleteTriplets(columns) = {}
        /\ Range(columns) = {"x", "y", "ccf_z"} => picked.exc = "DataSchemaError"

C3_Witness ==
    /\ pc = "resolved" /\ call.fn = "_pick_coord_columns"
    /\ Range(columns) = {"x", "y", "ccf_z"}
    /\ picked.exc = "DataSchemaError"

PresentAt(cols, candidates) ==
    {i \in 1..Len(candidates) : candidates[i] \in Range(cols)}

Least(S) == CHOOSE i \in S : \A j \in S : i <= j

Reorderings(cols) ==
    {p \in DistinctLists(Range(cols), Len(cols)) : Len(p) = Len(cols)}

\* C4: _pick_first_available returns the present candidate of least rank in the
\* candidate tuple, whatever the order of the available columns, and raises
\* DataSchemaError carrying the concept label and the whole candidate tuple
\* exactly when no candidate is present.
C4_FirstAvailable ==
    (pc = "resolved" /\ call.fn = "_pick_first_available") =>
        LET present == PresentAt(columns, call.candidates)
        IN  /\ present # {} =>
                picked = Return(call.candidates[Least(present)])
            /\ present = {} =>
                picked = Raise("DataSchemaError",
                               [label |-> call.label, tried |-> call.candidates])
            /\ \A p \in Reorderings(columns) :
                   pick_first_available(p, call.candidates, call.label) = picked

C4_Witness ==
    /\ pc = "resolved" /\ call.fn = "_pick_first_available"
    /\ Cardinality(PresentAt(columns, call.candidates)) >= 2
    /\ columns[1] # picked.value
    /\ picked.exc = ""


----------------------------------------------------------------------------
(* Scenario 2: load_expression_subset is called on an expression file. *)

Cells == Range(CellOrder)
LongValues == {Num(2), Num(4), NaN}
WideValues == {Num(5), NaN}
RequestNames == Range(GeneOrder) \cup {""}

\* Long layout: one row per (cell, gene); the cell column is named idcol.
LongTables(idcol, cells, gs, values, n) ==
    LET rowset == {(idcol :> c) @@ ("gene" :> g) @@ ("expression" :> v) :
                       c \in cells, g \in gs, v \in values}
    IN  {DataFrame(<<idcol, "gene", "expression">>, rows) : rows \in ListsOver(rowset, n)}

\* Wide layout: one row per cell, the cell column idcol and the gene columns.
WideTables(idcol, genecols, cells, values, n) ==
    LET rowset == {(idcol :> c) @@ f : c \in cells, f \in [Range(genecols) -> values]}
    IN  {DataFrame(<<idcol>> \o genecols, rows) : rows \in ListsOver(rowset, n)}

GeneColumnLists == {<<>>, <<"GeneA">>, <<"GeneB">>, <<"GeneA", "GeneB">>}

ExpressionTables(n) ==
    UNION {LongTables(idcol, Cells \cup {NullStr}, Range(GeneOrder), LongValues, n) :
               idcol \in {"cell_id", "cell_label"}}
    \cup UNION {WideTables(idcol, gc, Cells, WideValues, n) :
                    idcol \in {"cell_label", "cell", "barcode"}, gc \in GeneColumnLists}

File(suffix, table) == [exists |-> TRUE, suffix |-> suffix, table |-> table]
MissingFile(suffix) == [exists |-> FALSE, suffix |-> suffix, table |-> EmptyFrame(<<>>)]

ExpressionFiles(n) ==
    {File(s, t) : s \in {".csv", ".parquet"}, t \in ExpressionTables(n)}
    \cup {File(".txt", t) : t \in ExpressionTables(0)}
    \cup {MissingFile(".parquet")}

LoaderInit ==
    /\ pc = "load"
    /\ path \in ExpressionFiles(MaxRows)
    /\ genes \in ListsOver(RequestNames, Len(GeneOrder))
    /\ loaded = None /\ layout = ""
    /\ ResolverIdle /\ AppIdle /\ FilterIdle

LoadExpressionSubset ==
    /\ pc = "load"
    /\ loaded' = load_expression_subset(path, genes)
    /\ layout' = expression_layout(path, genes)
    /\ pc' = "loaded"
    /\ UNCHANGED <<path, genes, resolverVars, appVars, filterVars>>

LoaderNext == LoadExpressionSubset

SpecLoader == LoaderInit /\ [][LoaderNext]_vars

----------------------------------------------------------------------------
(* Claims about the expression loader. *)

\* The file is an expression source: it opens, and its columns carry a cell
\* identifier under one of the declared aliases.
IsExpressionSource(p) ==
    /\ peek_columns(p).exc = ""
    /\ Range(p.table.columns) \cap Range(DEFAULT_CELL_ID_CANDIDATES) # {}

\* A request as the gene panel builds it: gene names, none of them twice.
IsGeneRequest(gs) ==
    /\ gs # <<>>
    /\ \A i \in 1..Len(gs) : gs[i] # ""
    /\ \A i, j \in 1..Len(gs) : i # j => gs[i] # gs[j]

\* C1: for a non-empty request, the result's columns are cell_id followed by
\* one column per requested gene, in the order requested, on either path.
C1_ColumnsAsRequested ==
    (pc = "loaded" /\ IsExpressionSource(path) /\ IsGeneRequest(genes)) =>
        /\ loaded.exc = ""
        /\ loaded.value.columns = <<"cell_id">> \o genes

\* The genes the source has no measurement of: no row (long) or no column (wide).
OccursIn(g, p) ==
    \/ g \in Range(p.table.columns)
    \/ /\ "gene" \in Range(p.table.columns)
       /\ \E i \in 1..Len(p.table.rows) : p.table.rows[i]["gene"] = g

\* C2: a requested gene that does not occur in the source raises no error and
\* is a column of the result, null for every returned cell.
C2_AbsentGeneIsNullColumn ==
    (pc = "loaded" /\ IsExpressionSource(path)) =>
        \A g \in Range(genes) :
            (g # "" /\ ~OccursIn(g, path)) =>
                /\ loaded.exc = ""
                /\ g \in Range(loaded.value.columns)
                /\ \A i \in 1..Len(loaded.value.rows) : IsNull(loaded.value.rows[i][g])

\* C7: a source whose columns carry a cell identifier (under any declared
\* alias), a gene column and an expression column is read on the long path,
\* every other source on the wide path.
C7_LongLayoutDetected ==
    (pc = "loaded" /\ peek_columns(path).exc = "" /\ normalize_genes(genes) # <<>>) =>
        LET cols == Range(path.table.columns)
            long == /\ cols \cap Range(DEFAULT_CELL_ID_CANDIDATES) # {}
                    /\ {"gene", "expression"} \subseteq cols
        IN  layout = IF long THEN "long" ELSE "wide"


\* The indices of the source rows of cell c and gene g that carry a value.
Measured(p, c, g) ==
    {i \in 1..Len(p.table.rows) :
        /\ p.table.rows[i]["cell_id"] = c
        /\ p.table.rows[i]["gene"] = g
        /\ ~IsNull(p.table.rows[i]["expression"])}

RECURSIVE Total(_, _)
Total(p, I) ==
    IF I = {} THEN 0
    ELSE LET i == CHOOSE k \in I : TRUE
         IN  p.table.rows[i]["expression"][1] + Total(p, I \ {i})

\* C8: on the long path the loader never fails, returns at most one row per
\* cell id, and the value of a (cell, gene) pair is the arithmetic mean of all
\* the expression values the source has for that cell and gene (null when it
\* has none); every requested pair the source measures is returned.
C8_MeanOfDuplicates ==
    (pc = "loaded" /\ layout = "long") =>
        /\ loaded.exc = ""
        /\ LET out == loaded.value
               req == Range(normalize_genes(genes))
           IN  /\ \A i, j \in 1..Len(out.rows) :
                      i # j => out.rows[i]["cell_id"] # out.rows[j]["cell_id"]
               /\ \A i \in 1..Len(out.rows) : \A g \in Range(out.columns) \ {"cell_id"} :
                      LET I == Measured(path, out.rows[i]["cell_id"], g)
                          v == out.rows[i][g]
                      IN  /\ g \in req
                          /\ I = {} => IsNull(v)
                          /\ I # {} => v[2] > 0 /\ v[1] * Cardinality(I) = Total(path, I) * v[2]
               /\ \A c \in Cells : \A g \in req :
                      Measured(path, c, g) # {} =>
                          \E i \in 1..Len(out.rows) :
                              /\ out.rows[i]["cell_id"] = c
                              /\ g \in Range(out.columns)

C8_Witness ==
    /\ pc = "loaded" /\ layout = "long"
    /\ path.table.rows = << [cell_id |-> "c1", gene |-> "GeneA", expression |-> Num(2)],
                            [cell_id |-> "c1", gene |-> "GeneA", expression |-> Num(4)] >>
    /\ loaded.exc = ""
    /\ Len(loaded.value.rows) = 1
    /\ loaded.value.rows[1]["cell_id"] = "c1"
    /\ loaded.value.rows[1]["GeneA"] = Num(3)


----------------------------------------------------------------------------
(* Scenario 3: one run of the app.py script, lines 68-122. *)

RegionOrder == <<"MOp", "VIS">>
ClassOrder == <<"GABA", "Glut">>

MetadataRow(cell, region, class, z) ==
    [cell_label |-> cell, structure_acronym |-> region, class |-> class,
     x |-> Num(1), y |-> Num(2), z |-> z]

MetadataTables(n) ==
    LET rowset == {MetadataRow("c1", "VIS", "Glut", Num(3)),
                   MetadataRow("c2", "MOp", "GABA", Num(3)),
                   MetadataRow("c1", "MOp", "Glut", NaN),
                   MetadataRow(NullStr, "VIS", "GABA", Num(3))}
    IN  {DataFrame(<<"cell_label", "structure_acronym", "class", "x", "y", "z">>, rows) :
             rows \in ListsOver(rowset, n)}

\* A metadata file and whether its resolution is already cached.
MetadataInputs ==
    {[file |-> File(".csv", t), cached |-> FALSE] : t \in MetadataTables(MaxMetaRows)}
    \cup {[file |-> File(".csv", DataFrame(<<"cell_id", "brain_region", "supertype",
                                             "x", "y", "ccf_z">>, <<>>)), cached |-> FALSE],
          [file |-> File(".txt", EmptyFrame(<<>>)), cached |-> FALSE],
          [file |-> MissingFile(".csv"), cached |-> FALSE],
          [file |-> MissingFile(".csv"), cached |-> TRUE]}

AppExpressionTables(n) ==
    WideTables("cell", <<"GeneA">>, Cells, WideValues, n)
    \cup LongTables("cell_id", {"c1"}, {"GeneA"}, {Num(2), Num(4)}, n)

\* The expression path typed in the sidebar ("" when left empty), the file
\* behind it and whether its resolution is already cached.
ExpressionInputs ==
    {[rel |-> "expression", file |-> File(".parquet", t), cached |-> FALSE] :
         t \in AppExpressionTables(MaxRows)}
    \cup {[rel |-> "expression", file |-> File(".csv", EmptyFrame(<<"barcode", "GeneA">>)),
           cached |-> FALSE],
          [rel |-> "expression", file |-> File(".txt", EmptyFrame(<<>>)), cached |-> FALSE],
          [rel |-> "expression", file |-> MissingFile(".parquet"), cached |-> FALSE],
          [rel |-> "expression", file |-> MissingFile(".parquet"), cached |-> TRUE],
          [rel |-> "", file |-> MissingFile(""), cached |-> FALSE]}

\* selected_genes = list(dict.fromkeys([*default_genes, *extra_genes]))
GenePanels == DistinctLists(Range(GeneOrder), Len(GeneOrder))

Notice(level, about) == [level |-> level, about |-> about]

AppInit ==
    /\ pc = "resolve_metadata"
    /\ fs \in [metadata : MetadataInputs, expression : ExpressionInputs]
    /\ selected_genes \in GenePanels
    /\ expression_path = ""
    /\ metadata = None /\ expression = None /\ merged = None /\ notices = <<>>
    /\ ResolverIdle /\ LoaderIdle
    /\ df = <<>> /\ regions = <<>> /\ classes = <<>> /\ gene_thresholds = <<>>
    /\ filtered = <<>>

\* Lines 68-72.
ResolveMetadataPath ==
    /\ pc = "resolve_metadata"
    /\ LET r == resolve_abc_file_path(fs.metadata.file, fs.metadata.cached)
       IN  IF r.exc = "FileNotFoundError"
           THEN /\ notices' = Append(notices, Notice("error", "metadata path"))
                /\ pc' = "stopped"
           ELSE /\ notices' = notices
                /\ pc' = "resolve_expression"
    /\ UNCHANGED <<fs, selected_genes, expression_path, metadata, expression, merged,
                   resolverVars, loaderVars, filterVars>>

\* Lines 74-79.
ResolveExpressionPath ==
    /\ pc = "resolve_expression"
    /\ LET r == resolve_abc_file_path(fs.expression.file, fs.expression.cached)
       IN  IF fs.expression.rel = ""
           THEN expression_path' = "" /\ notices' = notices
           ELSE IF r.exc = "FileNotFoundError"
           THEN /\ expression_path' = ""
                /\ notices' = Append(notices, Notice("warning", "expression path"))
           ELSE expression_path' = r.value /\ notices' = notices
    /\ pc' = "load_metadata"
    /\ UNCHANGED <<fs, selected_genes, metadata, expression, merged,
                   resolverVars, loaderVars, filterVars>>

\* Lines 81-85.
LoadMetadata ==
    /\ pc = "load_metadata"
    /\ LET r == load_metadata(fs.metadata.file)
       IN  IF r.exc \in {"FileNotFoundError", "DataSchemaError", "ValueError"}
           THEN /\ notices' = Append(notices, Notice("error", "metadata load"))
                /\ metadata' = metadata
                /\ pc' = "stopped"
           ELSE /\ notices' = notices
                /\ metadata' = r.value
                /\ pc' = "load_expression"
    /\ UNCHANGED <<fs, selected_genes, expression_path, expression, merged,
                   resolverVars, loaderVars, filterVars>>

\* A bug the script could have: a failed expression load ends the run.
LoadExpressionOrStop ==
    /\ pc = "load_expression"
    /\ LET r == load_expression_subset(fs.expression.file, selected_genes)
       IN  IF expression_path = ""
           THEN expression' = None /\ notices' = notices /\ pc' = "merge"
           ELSE IF r.exc # ""
           THEN /\ expression' = None
                /\ notices' = Append(notices, Notice("error", "expression load"))
                /\ pc' = "stopped"
           ELSE expression' = r.value /\ notices' = notices /\ pc' = "merge"
    /\ UNCHANGED <<fs, selected_genes, expression_path, metadata, merged,
                   resolverVars, loaderVars, filterVars>>

\* Lines 87-94.
LoadExpression ==
    /\ pc = "load_expression"
    /\ LET r == load_expression_subset(fs.expression.file, selected_genes)
       IN  IF expression_path = ""
           THEN expression' = None /\ notices' = notices
           ELSE IF r.exc = "FileNotFoundError"
           THEN /\ expression' = None
                /\ notices' = Append(notices, Notice("warning", "expression file not found"))
           ELSE IF r.exc # ""
           THEN /\ expression' = None
                /\ notices' = Append(notices, Notice("warning", "expression load failed"))
           ELSE expression' = r.value /\ notices' = notices
    /\ pc' = "merge"
    /\ UNCHANGED <<fs, selected_genes, expression_path, metadata, merged,
                   resolverVars, loaderVars, filterVars>>

\* Lines 96-98.
Merge ==
    /\ pc = "merge"
    /\ merged' = IF expression # None /\ expression.rows # <<>>
                 THEN merge_left(metadata, expression)
                 ELSE metadata
    /\ pc' = "filter"
    /\ UNCHANGED <<fs, selected_genes, expression_path, metadata, expression, notices,
                   resolverVars, loaderVars, filterVars>>

\* merged[col].dropna().unique(), sorted.
Options(table, col, order) ==
    SelectSeq(order, LAMBDA v : \E i \in 1..Len(table.rows) : table.rows[i][col] = v)

Measurements(table, gene) ==
    {table.rows[i][gene] : i \in 1..Len(table.rows)} \ {NaN}

\* The genes of the panel that get a slider (line 111), in panel order.
SliderGenes(table, panel) ==
    SelectSeq(panel, LAMBDA g : g \in Range(table.columns) /\ Measurements(table, g) # {})

MinOf(S) == CHOOSE v \in S : \A w \in S : Geq(w, v)
MaxOf(S) == CHOOSE v \in S : \A w \in S : Geq(v, w)

\* Lines 100-122: the sidebar selections (no region or one, no class or one,
\* every slider at its minimum or every slider at its maximum), then filter_cells.
Filter ==
    /\ pc = "filter"
    /\ \E rs \in {<<>>} \cup {<<o>> : o \in Range(Options(merged, "region", RegionOrder))},
          cs \in {<<>>} \cup {<<o>> : o \in Range(Options(merged, "cell_class", ClassOrder))},
          top \in BOOLEAN :
          LET sliders == SliderGenes(merged, selected_genes)
              th == [k \in 1..Len(sliders) |->
                        <<sliders[k], IF top THEN MaxOf(Measurements(merged, sliders[k]))
                                      ELSE MinOf(Measurements(merged, sliders[k]))>>]
          IN  /\ regions' = rs /\ classes' = cs /\ gene_thresholds' = th
              /\ filtered' = filter_cells(merged, rs, cs, th)
    /\ pc' = "render"
    /\ UNCHANGED <<fs, selected_genes, expression_path, metadata, expression, merged,
                   notices, df, resolverVars, loaderVars>>

AppNext ==
    \/ ResolveMetadataPath
    \/ ResolveExpressionPath
    \/ LoadMetadata
    \/ LoadExpression
    \/ Merge
    \/ Filter

SpecApp == AppInit /\ [][AppNext]_vars

----------------------------------------------------------------------------
(* Claims about the pipeline. *)

Reached(positions) == pc \in positions

\* C5: the merged table has exactly as many rows as the metadata table,
\* whatever the expression table holds.
C5_MergePreservesRowCount ==
    Reached({"filter", "render"}) => Len(merged.rows) = Len(metadata.rows)

ExpressionFailed ==
    \E k \in 1..Len(notices) :
        notices[k].about \in {"expression path", "expression file not found",
                              "expression load failed"}

\* C6: once the metadata is loaded the run is never stopped by the expression
\* side, the metadata table stays the one load_metadata returned, and after a
\* failed expression path resolution or expression load the run goes on to the
\* filter with no expression table and the merged table equal to the metadata.
C6_MetadataOnlyMode ==
    /\ pc = "stopped" => metadata = None
    /\ metadata # None => metadata = load_metadata(fs.metadata.file).value
    /\ (ExpressionFailed /\ metadata # None) =>
          /\ pc \in {"load_expression", "merge", "filter", "render"}
          /\ expression = None
          /\ Reached({"filter", "render"}) => merged = metadata

C6_Witness ==
    /\ pc = "filter"
    /\ \E k \in 1..Len(notices) : notices[k].about = "expression load failed"
    /\ metadata.rows # <<>>
    /\ merged = metadata


----------------------------------------------------------------------------
(* Scenario 4: filter_cells is called on a table with a FilterSpec. *)

FilterTables(n) ==
    LET base == {[cell_id |-> "c1", region |-> r, cell_class |-> c] :
                     r \in Range(RegionOrder) \cup {NullStr}, c \in Range(ClassOrder)}
        measured == {b @@ [g \in {"GeneA"} |-> v] : b \in base, v \in {Num(2), Num(5), NaN}}
    IN  {DataFrame(<<"cell_id", "region", "cell_class">>, rows) : rows \in ListsOver(base, n)}
        \cup {DataFrame(<<"cell_id", "region", "cell_class", "GeneA">>, rows) :
                  rows \in ListsOver(measured, n)}

\* gene_thresholds dicts: keys in insertion order, finite thresholds and -inf.
ThresholdDicts ==
    {<<>>, << <<"GeneB", Num(3)>> >>}
    \cup { << <<"GeneA", t>> >> : t \in {Num(3), Num(5), NegInf} }
    \cup { << <<"GeneB", Num(3)>>, <<"GeneA", Num(5)>> >> }

FilterInit ==
    /\ pc = "filter_cells"
    /\ df \in FilterTables(MaxFilterRows)
    /\ regions \in DistinctLists(Range(RegionOrder), Len(RegionOrder))
    /\ classes \in {<<>>, <<"Glut">>}
    /\ gene_thresholds \in ThresholdDicts
    /\ filtered = <<>>
    /\ ResolverIdle /\ LoaderIdle /\ AppIdle

FilterCells ==
    /\ pc = "filter_cells"
    /\ filtered' = filter_cells(df, regions, classes, gene_thresholds)
    /\ pc' = "filtered"
    /\ UNCHANGED <<df, regions, classes, gene_thresholds, resolverVars, loaderVars, appVars>>

FilterNext == FilterCells

SpecFilter == FilterInit /\ [][FilterNext]_vars

----------------------------------------------------------------------------
(* Claims about filter_cells. *)

IsFinite(t) == t[2] > 0

\* The row carries a value for the gene and the value is at least threshold t.
AtLeast(row, gene, t) ==
    /\ ~IsNull(row[gene])
    /\ row[gene][1] * t[2] >= t[1] * row[gene][2]

\* What each dimension of the FilterSpec asks of a row.
RegionAllows(row) == regions = <<>> \/ row["region"] \in Range(regions)
ClassAllows(row) == classes = <<>> \/ row["cell_class"] \in Range(classes)
ThresholdAllows(row, k) ==
    LET gene == gene_thresholds[k][1]
        t == gene_thresholds[k][2]
    IN  gene \in Range(df.columns) => (t = NegInf \/ AtLeast(row, gene, t))
ThresholdsAllow(row) == \A k \in 1..Len(gene_thresholds) : ThresholdAllows(row, k)

Kept(row) == \E i \in 1..Len(filtered.rows) : filtered.rows[i] = row

\* C9: an empty region allow-list keeps every row the other dimensions allow,
\* and so does an empty class allow-list (with both empty and no threshold the
\* output is the input); a non-empty allow-list never lets through a row whose
\* region (cell_class) is outside it.
C9_AllowSets ==
    pc = "filtered" =>
        /\ (regions = <<>> /\ classes = <<>> /\ gene_thresholds = <<>>) => filtered = df
        /\ regions = <<>> =>
              \A i \in 1..Len(df.rows) :
                  (ClassAllows(df.rows[i]) /\ ThresholdsAllow(df.rows[i])) => Kept(df.rows[i])
        /\ classes = <<>> =>
              \A i \in 1..Len(df.rows) :
                  (RegionAllows(df.rows[i]) /\ ThresholdsAllow(df.rows[i])) => Kept(df.rows[i])
        /\ regions # <<>> =>
              \A i \in 1..Len(filtered.rows) : filtered.rows[i]["region"] \in Range(regions)
        /\ classes # <<>> =>
              \A i \in 1..Len(filtered.rows) : filtered.rows[i]["cell_class"] \in Range(classes)

C9_Witness ==
    /\ pc = "filtered"
    /\ regions = <<>> /\ classes = <<"Glut">> /\ gene_thresholds = <<>>
    /\ \E i \in 1..Len(df.rows) : df.rows[i]["region"] = NullStr /\ Kept(df.rows[i])
    /\ Len(filtered.rows) < Len(df.rows)

\* C10: for a gene that is a column of the table and a finite threshold, no row
\* of the output is null or below the threshold for that gene, and a row at or
\* above the threshold is kept unless another dimension of the filter drops it.
C10_ThresholdExcludesNull ==
    pc = "filtered" =>
        \A k \in 1..Len(gene_thresholds) :
            LET gene == gene_thresholds[k][1]
                t == gene_thresholds[k][2]
            IN  (gene \in Range(df.columns) /\ IsFinite(t)) =>
                    /\ \A i \in 1..Len(filtered.rows) : AtLeast(filtered.rows[i], gene, t)
                    /\ \A i \in 1..Len(df.rows) :
                           ( /\ AtLeast(df.rows[i], gene, t)
                             /\ RegionAllows(df.rows[i]) /\ ClassAllows(df.rows[i])
                             /\ \A j \in 1..Len(gene_thresholds) :
                                    j # k => ThresholdAllows(df.rows[i], j) )
                               => Kept(df.rows[i])

C10_Witness ==
    /\ pc = "filtered"
    /\ gene_thresholds = << <<"GeneA", Num(5)>> >>
    /\ "GeneA" \in Range(df.columns)
    /\ Len(df.rows) = 2
    /\ IsNull(df.rows[1]["GeneA"])
    /\ df.rows[2]["GeneA"] = Num(5)
    /\ filtered.rows = <<df.rows[2]>>


====
